---- MODULE Spec2Model ----
(***************************************************************************)
(* Model of pond's Collection (packages/pond/lib/collection.js): an        *)
(* ordered list of Events (_events) plus a map from the string of an       *)
(* Event's key to the set of positions holding that key (_keyMap).         *)
(*                                                                         *)
(* Positions are 0-based, as in the code; the TLA+ sequence holding the    *)
(* list stores position i at index i+1.                                    *)
(* An Immutable.Set is modelled as a duplicate-free sequence in insertion  *)
(* order (the order Immutable.js iterates a Set of at most 8 entries in).  *)
(***************************************************************************)
EXTENDS Integers, Sequences, FiniteSets, TLC

\* Longest event list the model builds.
MaxLen == 2

\* Number of Event objects the model lets the calls create (merge
\* functions and mapKeys create new Event objects).
MaxNew == 1

(***************************************************************************)
(* Events.  An Event object is [id, key, value]: id is the identity of     *)
(* the JS object (Immutable.is compares Events by reference), key the      *)
(* millisecond timestamp of its Time key, value its "value" field.         *)
(***************************************************************************)
Undefined == [id |-> 0, key |-> 0, value |-> 0]

Event(i, k, v) == [id |-> i, key |-> k, value |-> v]

\* The Event objects the caller owns before the first call.
E1 == Event(1, 1, 2)

E2 == Event(2, 1, 1)

E3 == Event(3, 2, 1)

Pool == {E1, E2, E3}

PoolSize == Cardinality(Pool)

\* The keys the caller asks for; no Event of the pool has the last one.
Keys == {1, 2, 3}

MaxId == PoolSize + MaxNew

getKey(e) == e.key

\* key.toString(): the string serialization the index is keyed by.
toString(k) == ToString(k)

KeyStr(e) == toString(getKey(e))

(***************************************************************************)
(* Immutable.js primitives.                                                *)
(***************************************************************************)
Range(s) == { s[i] : i \in DOMAIN s }

\* Immutable.Set.add
SetAdd(s, x) == IF x \in Range(s) THEN s ELSE Append(s, x)

\* Immutable.Map.has / set / remove
MapHas(m, k) == k \in DOMAIN m

MapSet(m, k, v) == [x \in DOMAIN m \cup {k} |-> IF x = k THEN v ELSE m[x]]

MapRemove(m, k) == [x \in DOMAIN m \ {k} |-> m[x]]

EmptyMap == [x \in {} |-> <<>>]

\* Immutable.List.get: negative positions count from the end, a position
\* outside the list yields undefined.
ListGet(l, i) ==
    LET j == IF i < 0 THEN Len(l) + i ELSE i
    IN  IF j >= 0 /\ j < Len(l) THEN l[j + 1] ELSE Undefined

\* Immutable.Set.map(f).toList() for f = i => events.get(i): the mapped
\* values form a Set again, so equal values collapse.
RECURSIVE SetMapGet(_, _, _)
SetMapGet(s, l, acc) ==
    IF s = <<>> THEN acc
    ELSE SetMapGet(Tail(s), l, SetAdd(acc, ListGet(l, Head(s))))

\* List.filterNot(duplicate => key string of duplicate = k)
FilterNotKey(l, k) == SelectSeq(l, LAMBDA d : KeyStr(d) # k)

\* List.filterNot((event, i) => indices.has(i))
RECURSIVE FilterNotIdx(_, _, _)
FilterNotIdx(l, idx, i) ==
    IF i >= Len(l) THEN <<>>
    ELSE (IF i \in idx THEN <<>> ELSE <<l[i + 1]>>) \o FilterNotIdx(l, idx, i + 1)

\* Immutable.List.sortBy: a stable sort, ascending in the mapped value.
\* by = "key": event => +event.getKey().timestamp(); by = "value":
\* event => event.get(fieldAsArray("value")).
SortVal(by, e) == IF by = "key" THEN getKey(e) ELSE e.value

RECURSIVE InsertSorted(_, _, _)
InsertSorted(l, x, by) ==
    IF l = <<>> THEN <<x>>
    ELSE IF SortVal(by, Head(l)) <= SortVal(by, x)
         THEN <<Head(l)>> \o InsertSorted(Tail(l), x, by)
         ELSE <<x>> \o l

RECURSIVE SortByFrom(_, _, _)
SortByFrom(l, by, acc) ==
    IF l = <<>> THEN acc ELSE SortByFrom(Tail(l), by, InsertSorted(acc, Head(l), by))

\* A sort that takes the events from the last to the first, so that events
\* of equal value come out in reverse.
ListSortByReversed(l, by) ==
    SortByFrom([i \in 1 .. Len(l) |-> l[Len(l) + 1 - i]], by, <<>>)

ListSortBy(l, by) == SortByFrom(l, by, <<>>)

(***************************************************************************)
(* Collection                                                              *)
(***************************************************************************)
Coll(ev, km) == [events |-> ev, keyMap |-> km]

EmptyColl == Coll(<<>>, EmptyMap)

RECURSIVE buildKeyMapFrom(_, _, _)
buildKeyMapFrom(ev, i, keyMap) ==
    IF i >= Len(ev) THEN keyMap
    ELSE LET k == KeyStr(ev[i + 1])
             indicies == IF MapHas(keyMap, k) THEN SetAdd(keyMap[k], i) ELSE <<i>>
         IN  buildKeyMapFrom(ev, i + 1, MapSet(keyMap, k, indicies))

buildKeyMap(ev) == buildKeyMapFrom(ev, 0, EmptyMap)

\* The result of a call: what it raised ("none" when it returned), the
\* receiver object's fields after the call (self), the returned Collection
\* (coll) or plain value (value), the calls made to the merge function
\* (fnLog) and the next free object identity.
Ok(self, coll, value, fnLog, nid) ==
    [raised |-> "none", self |-> self, coll |-> coll, value |-> value,
     fnLog |-> fnLog, nextId |-> nid]

Raise(err, self, fnLog, nid) ==
    [raised |-> err, self |-> self, coll |-> self, value |-> <<>>,
     fnLog |-> fnLog, nextId |-> nid]

TypeError == "TypeError"

\* clone(events, keyMap): a new Collection carrying the two fields; the
\* receiver is left as it is.
cloneShared(self, ev, km) == [self |-> Coll(ev, km), coll |-> Coll(ev, km)]

clone(self, ev, km) == [self |-> self, coll |-> Coll(ev, km)]

\* A hook that puts the list in key order.
onEventAddedSorted(ev) == ListSortBy(ev, "key")

onEventAdded(ev) == ev

\* atKey(key): raises when the key string is not in the map (indexes is
\* undefined), else the events at the stored positions.
atKey(self, key) ==
    IF ~MapHas(self.keyMap, toString(key))
    THEN [raised |-> TypeError, value |-> <<>>]
    ELSE [raised |-> "none",
          value  |-> SetMapGet(self.keyMap[toString(key)], self.events, <<>>)]

(***************************************************************************)
(* Merge functions a caller passes as dedup.  "sum" is the one of the      *)
(* addEvent documentation: a new Event at the key, holding the sum of the  *)
(* values; it reads every element of the list it is given.                 *)
(***************************************************************************)
RECURSIVE SumValues(_)
SumValues(l) == IF l = <<>> THEN 0 ELSE Head(l).value + SumValues(Tail(l))

MergeRaises(args) == Undefined \in Range(args)

MergeSum(args, key, nid) == Event(nid, key, SumValues(args))

Dedups == {"none", "replace", "sum"}

\* The onEventAdded of the class of the receiver: "default" is
\* Collection's own, "sort" that of a subclass that keeps its events in
\* key order (events.sortBy(...), a new list at every call).
Hooks == {"default", "sort"}

\* this.onEventAdded(events): the list it returns and whether that is the
\* very list it was given (newEvents === events).
callHook(hook, ev) ==
    IF hook = "default" THEN [events |-> onEventAdded(ev), same |-> onEventAdded(ev) = ev]
    ELSE [events |-> ListSortBy(ev, "key"), same |-> FALSE]

\* An index update that always rebuilds, and one that never does.
updateKeyMapRebuild(keyMap, k, indicies, newEvents, same) == buildKeyMap(newEvents)

updateKeyMapIncremental(keyMap, k, indicies, newEvents, same) ==
    MapSet(keyMap, k, SetAdd(indicies, Len(newEvents) - 1))

\* The index of the Collection addEvent returns: the receiver's with the
\* new position added under k when the hook returned the list it was
\* given, an index rebuilt from scratch otherwise.
updateKeyMap(keyMap, k, indicies, newEvents, same) ==
    IF same THEN MapSet(keyMap, k, SetAdd(indicies, Len(newEvents) - 1))
    ELSE buildKeyMap(newEvents)

addEventWith(hook, self, event, dedup, nid) ==
    LET k == toString(getKey(event))
        indicies0 == IF MapHas(self.keyMap, k) THEN self.keyMap[k] ELSE <<>>
        at == atKey(self, getKey(event))
        conflicts == at.value
        hit == dedup # "none" /\ Len(conflicts) > 0
        args == conflicts \o <<event>>
        called == hit /\ dedup = "sum"
        e == IF called THEN MergeSum(args, getKey(event), nid) ELSE event
        fnLog == IF called THEN <<[args |-> args, ret |-> e]>> ELSE <<>>
        events1 == IF hit THEN FilterNotKey(self.events, k) ELSE self.events
        indicies1 == IF hit THEN <<>> ELSE indicies0
        events2 == Append(events1, e)
        hooked == callHook(hook, events2)
        newEvents == hooked.events
        newKeyMap == updateKeyMap(self.keyMap, k, indicies1, newEvents, hooked.same)
        c == clone(self, newEvents, newKeyMap)
    IN  IF dedup # "none" /\ at.raised # "none"
        THEN Raise(at.raised, self, <<>>, nid)
        ELSE IF called /\ MergeRaises(args)
        THEN Raise(TypeError, self, <<[args |-> args, ret |-> Undefined]>>, nid)
        ELSE Ok(c.self, c.coll, <<>>, fnLog, IF called THEN nid + 1 ELSE nid)

\* addEvent of a Collection, whose hook is the default one.
addEvent(self, event, dedup, nid) == addEventWith("default", self, event, dedup, nid)

removeEvents(self, key, nid) ==
    LET k == toString(key)
        present == MapHas(self.keyMap, k)
        indices == IF present THEN Range(self.keyMap[k]) ELSE {}
        ev == FilterNotIdx(self.events, indices, 0)
        keyMap == MapRemove(self.keyMap, k)
        c == clone(self, ev, keyMap)
    IN  IF ~present /\ Len(self.events) > 0
        THEN Raise(TypeError, self, <<>>, nid)
        ELSE Ok(c.self, c.coll, <<>>, <<>>, nid)

(***************************************************************************)
(* Structural transforms.                                                  *)
(***************************************************************************)
Min(a, b) == IF a < b THEN a ELSE b

\* new Collection(list): the list, with its index built from scratch.
Collection(ev) == Coll(ev, buildKeyMap(ev))

\* Immutable.List.takeLast(amount), slice(begin, end) and rest() for
\* amount, begin, end >= 0.
ListTakeLast(l, amount) ==
    IF amount >= Len(l) THEN l ELSE SubSeq(l, Len(l) - amount + 1, Len(l))

\* A slice that takes position e too.
ListSliceThrough(l, b, e) ==
    IF b >= Min(e + 1, Len(l)) THEN <<>> ELSE SubSeq(l, b + 1, Min(e + 1, Len(l)))

ListSlice(l, b, e) ==
    IF b >= Min(e, Len(l)) THEN <<>> ELSE SubSeq(l, b + 1, Min(e, Len(l)))

ListRest(l) == IF l = <<>> THEN <<>> ELSE Tail(l)

takeLast(self, amount, nid) ==
    LET ev == ListTakeLast(self.events, amount)
        keyMap == buildKeyMap(ev)
        c == clone(self, ev, keyMap)
    IN  Ok(c.self, c.coll, <<>>, <<>>, nid)

\* A setEvents that keeps the receiver's index.
setEventsKeep(self, ev, nid) ==
    LET c == clone(self, ev, self.keyMap)
    IN  Ok(c.self, c.coll, <<>>, <<>>, nid)

setEvents(self, ev, nid) ==
    LET keyMap == buildKeyMapFrom(ev, 0, EmptyMap)
        c == clone(self, ev, keyMap)
    IN  Ok(c.self, c.coll, <<>>, <<>>, nid)

slice(self, b, e, nid) == setEvents(self, ListSlice(self.events, b, e), nid)

rest(self, nid) == setEvents(self, ListRest(self.events), nid)

\* The mappers a caller passes to map: "same" returns the event it is
\* given, "first" returns the caller's event E1 whatever it is given.
Mappers == {"same", "first"}

Mapper(fn, e) == IF fn = "same" THEN e ELSE E1

\* The mappers a caller passes to flatMap: "twice" returns the event two
\* times, "later" returns the event unless its key is 1.
FlatMappers == {"twice", "later"}

FlatMapper(fn, e) ==
    IF fn = "twice" THEN <<e, e>>
    ELSE IF getKey(e) = 1 THEN <<>> ELSE <<e>>

\* The mappers a caller passes to mapKeys: "same" keeps the key, "one" maps
\* every key to 1.
KeyMappers == {"same", "one"}

KeyMapper(fn, k) == IF fn = "same" THEN k ELSE 1

RECURSIVE ListMap(_, _)
ListMap(l, fn) ==
    IF l = <<>> THEN <<>> ELSE <<Mapper(fn, Head(l))>> \o ListMap(Tail(l), fn)

RECURSIVE ListFlatMap(_, _)
ListFlatMap(l, fn) ==
    IF l = <<>> THEN <<>> ELSE FlatMapper(fn, Head(l)) \o ListFlatMap(Tail(l), fn)

\* events.map(event => new Event(mapper(event.getKey()), event.getData())):
\* every output is a new object.
RECURSIVE ListMapKeys(_, _, _)
ListMapKeys(l, fn, nid) ==
    IF l = <<>> THEN <<>>
    ELSE <<Event(nid, KeyMapper(fn, getKey(Head(l))), Head(l).value)>>
            \o ListMapKeys(Tail(l), fn, nid + 1)

\* A map that hands the receiver's index on to the result.
mapKeep(self, fn, nid) ==
    Ok(self, Coll(ListMap(self.events, fn), self.keyMap), <<>>, <<>>, nid)

map(self, fn, nid) ==
    Ok(self, Collection(ListMap(self.events, fn)), <<>>, <<>>, nid)

mapKeys(self, fn, nid) ==
    Ok(self, Collection(ListMapKeys(self.events, fn, nid)), <<>>, <<>>,
       nid + Len(self.events))

flatMap(self, fn, nid) ==
    Ok(self, Collection(ListFlatMap(self.events, fn)), <<>>, <<>>, nid)

sortByKey(self, nid) ==
    Ok(self, Collection(ListSortBy(self.events, "key")), <<>>, <<>>, nid)

sort(self, nid) ==
    Ok(self, Collection(ListSortBy(self.events, "value")), <<>>, <<>>, nid)

(***************************************************************************)
(* Stream processors.  lib/align.js, lib/rate.js and lib/collapse.js are   *)
(* not part of the sources at hand; a processor is what the specification  *)
(* says of it: an object constructed from options, whose addEvent(event)   *)
(* returns a list of zero or more new events and keeps state between the   *)
(* calls, here the event of the previous call (prev, undefined at first).  *)
(* Rate gives nothing for the first event and one event for each later     *)
(* one; Align gives one event per millisecond boundary passed since the    *)
(* previous event; Collapse gives exactly one event per event.             *)
(***************************************************************************)
processorAddEvent(kind, prev, e, nid) ==
    IF kind = "collapse" THEN <<Event(nid, getKey(e), e.value)>>
    ELSE IF prev = Undefined THEN <<>>
    ELSE IF kind = "rate" THEN <<Event(nid, getKey(e), e.value - prev.value)>>
    ELSE [i \in 1 .. (getKey(e) - getKey(prev)) |->
              Event(nid + i - 1, getKey(prev) + i, prev.value)]

\* this._events.map(e => p.addEvent(e)) and this._events.flatMap(e =>
\* p.addEvent(e)), from position i: Immutable.js calls the function once
\* per element, first to last.  The calls and what they returned are in
\* log, the returned lists laid end to end (what flatMap makes of them) in
\* flat.
RECURSIVE feed(_, _, _, _, _)
feed(kind, ev, i, prev, acc) ==
    IF i >= Len(ev) THEN acc
    ELSE LET e == ev[i + 1]
             out == processorAddEvent(kind, prev, e, acc.nid)
         IN  feed(kind, ev, i + 1, e,
                  [flat |-> acc.flat \o out,
                   log  |-> Append(acc.log, [args |-> <<e>>, ret |-> out]),
                   nid  |-> acc.nid + Len(out)])

align(self, nid) ==
    LET p == feed("align", self.events, 0, Undefined,
                  [flat |-> <<>>, log |-> <<>>, nid |-> nid])
    IN  Ok(self, Collection(p.flat), <<>>, p.log, p.nid)

rate(self, nid) ==
    LET p == feed("rate", self.events, 0, Undefined,
                  [flat |-> <<>>, log |-> <<>>, nid |-> nid])
    IN  Ok(self, Collection(p.flat), <<>>, p.log, p.nid)

\* collapse goes through map, not flatMap: the elements of the mapped list
\* are the lists addEvent returned, and the constructor's buildKeyMap
\* calls getKey() on the first of them, which is not a function of an
\* Immutable.List.  The objects the processor made are lost with the
\* exception.
collapse(self, nid) ==
    LET p == feed("collapse", self.events, 0, Undefined,
                  [flat |-> <<>>, log |-> <<>>, nid |-> nid])
        remapped == [i \in 1 .. Len(p.log) |-> p.log[i].ret]
    IN  IF remapped # <<>>
        THEN Raise(TypeError, self, p.log, nid)
        ELSE Ok(self, Collection(<<>>), <<>>, p.log, p.nid)

(***************************************************************************)
(* JS numbers.  quantile computes with doubles (1.0 / n, i += subsets,     *)
(* (size - 1) * i, Math.floor): IEEE 754 binary64, round to nearest, ties  *)
(* to even.  A natural number is a sequence of limbs of LimbBits bits,     *)
(* lowest limb first, without leading zero limbs; a double >= 0 is [m, e], *)
(* worth m * 2^e, with m of exactly Mantissa bits, or zero (m empty).      *)
(* Exponents stay far from the range where doubles overflow or lose        *)
(* precision to subnormals.                                                *)
(***************************************************************************)
Mantissa == 53

LimbBits == 15

Limb == 2 ^ LimbBits

RECURSIVE NNorm(_)
NNorm(a) ==
    IF a = <<>> THEN <<>>
    ELSE IF a[Len(a)] # 0 THEN a
    ELSE NNorm(SubSeq(a, 1, Len(a) - 1))

RECURSIVE NFromInt(_)
NFromInt(n) == IF n = 0 THEN <<>> ELSE <<n % Limb>> \o NFromInt(n \div Limb)

RECURSIVE NToInt(_)
NToInt(a) == IF a = <<>> THEN 0 ELSE Head(a) + Limb * NToInt(Tail(a))

NLimb(a, i) == IF i <= Len(a) THEN a[i] ELSE 0

\* a + b + carry, limb by limb from position i; a + b is NAddFrom(a, b, 1, 0).
RECURSIVE NAddFrom(_, _, _, _)
NAddFrom(a, b, i, carry) ==
    IF i > Len(a) /\ i > Len(b)
    THEN (IF carry = 1 THEN <<1>> ELSE <<>>)
    ELSE LET s == NLimb(a, i) + NLimb(b, i) + carry
         IN  <<s % Limb>> \o NAddFrom(a, b, i + 1, s \div Limb)

\* a - b - borrow for a >= b, limb by limb from position i, leading zero
\* limbs included.
RECURSIVE NSubFrom(_, _, _, _)
NSubFrom(a, b, i, borrow) ==
    IF i > Len(a) THEN <<>>
    ELSE LET s == NLimb(a, i) - NLimb(b, i) - borrow
         IN  <<s % Limb>> \o NSubFrom(a, b, i + 1, IF s < 0 THEN 1 ELSE 0)

\* a * k + carry for 0 <= k < Limb, limb by limb from position i, leading
\* zero limbs included when k = 0.
RECURSIVE NMulFrom(_, _, _, _)
NMulFrom(a, k, i, carry) ==
    IF i > Len(a) THEN NFromInt(carry)
    ELSE LET s == a[i] * k + carry
         IN  <<s % Limb>> \o NMulFrom(a, k, i + 1, s \div Limb)

\* The quotient (leading zero limbs included) and remainder of a by d,
\* 1 <= d < Limb, by long division from the highest limb (position i) down,
\* r being the remainder so far.
RECURSIVE NDivFrom(_, _, _, _)
NDivFrom(a, d, i, r) ==
    IF i = 0 THEN [q |-> <<>>, r |-> r]
    ELSE LET s == r * Limb + a[i]
             low == NDivFrom(a, d, i - 1, s % d)
         IN  [q |-> Append(low.q, s \div d), r |-> low.r]

Zeros(k) == [i \in 1 .. k |-> 0]

\* a * 2^k and the integer part of a / 2^k
NShl(a, k) ==
    IF a = <<>> THEN <<>>
    ELSE Zeros(k \div LimbBits) \o NNorm(NMulFrom(a, 2 ^ (k % LimbBits), 1, 0))

NShr(a, k) ==
    LET high == SubSeq(a, k \div LimbBits + 1, Len(a))
    IN  NNorm(NDivFrom(high, 2 ^ (k % LimbBits), Len(high), 0).q)

\* Bit i of a, the lowest being bit 0.
NBit(a, i) == (NLimb(a, i \div LimbBits + 1) \div 2 ^ (i % LimbBits)) % 2

\* The number of bits of a limb x, and of a.
RECURSIVE LimbLen(_)
LimbLen(x) == IF x = 0 THEN 0 ELSE 1 + LimbLen(x \div 2)

NBitLen(a) == IF a = <<>> THEN 0 ELSE (Len(a) - 1) * LimbBits + LimbLen(a[Len(a)])

\* a < b for a and b of the same length, comparing from limb i down.
RECURSIVE NLessFrom(_, _, _)
NLessFrom(a, b, i) ==
    IF i = 0 THEN FALSE
    ELSE IF a[i] # b[i] THEN a[i] < b[i]
    ELSE NLessFrom(a, b, i - 1)

DZero == [m |-> <<>>, e |-> 0]

\* The double nearest to (a + s) * 2^e, where 0 <= s < 1 and sticky tells
\* whether s > 0: ties go to the even mantissa.
Round(a, e, sticky) ==
    LET d == NBitLen(a) - Mantissa
        kept == NShr(a, d)
        below == sticky \/ NShl(NShr(a, d - 1), d - 1) # a
        up == NBit(a, d - 1) = 1 /\ (below \/ NBit(kept, 0) = 1)
        r == IF up THEN NAddFrom(kept, <<1>>, 1, 0) ELSE kept
    IN  IF a = <<>> THEN DZero
        ELSE IF d <= 0 THEN [m |-> NShl(a, -d), e |-> e + d]
        ELSE IF NBitLen(r) > Mantissa THEN [m |-> NShr(r, 1), e |-> e + d + 1]
        ELSE [m |-> r, e |-> e + d]

\* The double of an integer k >= 0, and of num * 2^exp.
FromInt(k) == Round(NFromInt(k), 0, FALSE)

Dyadic(num, exp) == Round(NFromInt(num), exp, FALSE)

\* Bits of the quotient computed before rounding.
DivPrecision == 80

\* 1.0 / n for 1 <= n < Limb: 2^DivPrecision divided by n, the remainder
\* being the sticky bit.
Reciprocal(n) ==
    LET num == NShl(<<1>>, DivPrecision)
        d == NDivFrom(num, n, Len(num), 0)
    IN  Round(NNorm(d.q), -DivPrecision, d.r # 0)

\* x + y
DAdd(x, y) ==
    LET e == Min(x.e, y.e)
    IN  IF x.m = <<>> THEN y
        ELSE IF y.m = <<>> THEN x
        ELSE Round(NAddFrom(NShl(x.m, x.e - e), NShl(y.m, y.e - e), 1, 0), e, FALSE)

\* k * x for an integer k, 0 <= k < Limb
DMulInt(x, k) == Round(NNorm(NMulFrom(x.m, k, 1, 0)), x.e, FALSE)

\* x - k for an integer k with 0 <= k <= x
DSubInt(x, k) ==
    LET e == Min(x.e, 0)
    IN  Round(NNorm(NSubFrom(NShl(x.m, x.e - e), NShl(NFromInt(k), -e), 1, 0)), e, FALSE)

\* k - x for an integer k >= x
DIntSub(k, x) ==
    LET e == Min(x.e, 0)
    IN  Round(NNorm(NSubFrom(NShl(NFromInt(k), -e), NShl(x.m, x.e - e), 1, 0)), e, FALSE)

\* x < y
DLess(x, y) ==
    LET e == Min(x.e, y.e)
    IN  IF y.m = <<>> THEN FALSE
        ELSE IF x.m = <<>> THEN TRUE
        ELSE LET a == NShl(x.m, x.e - e)
                 b == NShl(y.m, y.e - e)
             IN  IF Len(a) # Len(b) THEN Len(a) < Len(b)
                 ELSE NLessFrom(a, b, Len(a))

\* Math.floor(x)
Floor(x) == IF x.e >= 0 THEN NToInt(NShl(x.m, x.e)) ELSE NToInt(NShr(x.m, -x.e))

(***************************************************************************)
(* quantile(n, "value", interp).  A result value is a double.              *)
(***************************************************************************)
InterpLinear == 1

InterpLower == 2

InterpHigher == 3

InterpNearest == 4

InterpMidpoint == 5

\* JS truthiness of a number.
Truthy(x) == x # 0

SubsetError == "Error: Subset n is greater than the Collection length"

\* undefined as a number: v is declared and never assigned.
NoNumber == [m |-> <<>>, e |-> 1]

\* v, from v0, v1 and fraction: the if / else if chain of the loop body.
quantileValue(v0, v1, fraction, interp) ==
    IF Truthy(InterpLower) \/ fraction = DZero THEN FromInt(v0)
    ELSE IF Truthy(InterpLinear) THEN DAdd(FromInt(v0), DMulInt(fraction, v1 - v0))
    ELSE IF Truthy(InterpHigher) THEN FromInt(v1)
    ELSE IF Truthy(InterpNearest)
         THEN (IF DLess(fraction, Dyadic(1, -1)) THEN FromInt(v0) ELSE FromInt(v1))
    ELSE IF Truthy(InterpMidpoint) THEN Dyadic(v0 + v1, -1)
    ELSE NoNumber

\* for (let i = subsets; i < 1; i += subsets) { ... }, from the current i.
\* The literal 1 of the loop test i < 1.
One == FromInt(1)

RECURSIVE quantileLoop(_, _, _, _, _)
quantileLoop(sorted, subsets, i, interp, results) ==
    IF ~DLess(i, One) THEN results
    ELSE LET size == Len(sorted)
             at == DMulInt(i, size - 1)
             index == Floor(at)
             fraction == DSubInt(at, index)
             v0 == ListGet(sorted, index).value
             v1 == ListGet(sorted, index + 1).value
         IN  quantileLoop(sorted, subsets, DAdd(i, subsets), interp,
                 IF index < size - 1
                 THEN Append(results, quantileValue(v0, v1, fraction, interp))
                 ELSE results)

\* The loop from i = subsets = 1.0 / n; 1.0 / 0 is Infinity, which is not
\* below 1.
quantileResults(sorted, n, interp) ==
    IF n = 0 THEN <<>>
    ELSE LET subsets == Reciprocal(n)
         IN  quantileLoop(sorted, subsets, subsets, interp, <<>>)

quantileWeak(self, n, interp, nid) ==
    LET sorted == sort(self, nid).coll.events
    IN  IF n > Len(self.events) + 1
        THEN Raise(SubsetError, self, <<>>, nid)
        ELSE Ok(self, self, quantileResults(sorted, n, interp), <<>>, nid)

quantile(self, n, interp, nid) ==
    LET sorted == sort(self, nid).coll.events
    IN  IF n > Len(self.events)
        THEN Raise(SubsetError, self, <<>>, nid)
        ELSE Ok(self, self, quantileResults(sorted, n, interp), <<>>, nid)

(***************************************************************************)
(* quantile pass by pass, for any integer n.  For a negative n, subsets    *)
(* and i are negative: a number of the loop is [neg, abs, far], its sign,  *)
(* its absolute value as a double (rounding is the same on both sides of   *)
(* 0) and whether it has gone below -MaxI.  Every number below -MaxI acts  *)
(* alike: adding the negative subsets leaves it below -MaxI, and with      *)
(* MaxI >= 2 the position (size - 1) * i is before the first event of a    *)
(* list of two or more, -0 for a list of one event, and a positive number  *)
(* for the empty list.                                                     *)
(***************************************************************************)
\* Lowest n a caller passes to quantile is -MaxN.
MaxN == 2

\* The numbers from -MaxI up are kept exactly.
MaxI == 3

\* No call is running.
Idle == [pc |-> "idle", sorted |-> <<>>, subsets |-> DZero, interp |-> 0,
         i |-> [neg |-> FALSE, abs |-> DZero, far |-> FALSE], pass |-> 0]

\* One pass of the loop: the body, then i += subsets.  at(index) of a
\* position outside the list is undefined, and .get(column) of it raises.
quantilePass(sorted, subsets, i, interp, results) ==
    LET size == Len(sorted)
        a == DMulInt(i.abs, IF size = 0 THEN 1 ELSE size - 1)
        negative == a # DZero /\ (i.neg # (size = 0))
        whole == Floor(a)
        ceil == IF FromInt(whole) = a THEN whole ELSE whole + 1
        index == IF i.far THEN (IF size >= 2 THEN -size - 1 ELSE 0)
                 ELSE IF negative THEN -ceil ELSE whole
        fraction == IF negative THEN DIntSub(ceil, a) ELSE DSubInt(a, whole)
        e0 == ListGet(sorted, index)
        e1 == ListGet(sorted, index + 1)
        sum == DAdd(i.abs, subsets)
        next == IF i.far THEN i
                ELSE [neg |-> i.neg, abs |-> sum,
                      far |-> i.neg /\ DLess(FromInt(MaxI), sum)]
    IN  IF index < size - 1 /\ (e0 = Undefined \/ e1 = Undefined)
        THEN [raised |-> TypeError, i |-> i, results |-> results]
        ELSE [raised |-> "none", i |-> next,
              results |-> IF index < size - 1
                          THEN Append(results, quantileValue(e0.value, e1.value,
                                                             fraction, interp))
                          ELSE results]

(***************************************************************************)
(* Reads of the event list: toJSON, size, firstEvent, lastEvent,           *)
(* timerange, isChronological.                                             *)
(***************************************************************************)
\* The plain representation of an Event: its key and its data, the object
\* identity gone.
EventJS(e) == [key |-> getKey(e), value |-> e.value]

\* Immutable.List.toJS
RECURSIVE ListToJS(_)
ListToJS(l) == IF l = <<>> THEN <<>> ELSE <<EventJS(Head(l))>> \o ListToJS(Tail(l))

\* A dump that follows the key index instead of the list: the events
\* ordered by key.
toJSONByKey(self, nid) ==
    Ok(self, self, ListToJS(ListSortBy(self.events, "key")), <<>>, nid)

toJSON(self, nid) == Ok(self, self, ListToJS(self.events), <<>>, nid)

size(self) == Len(self.events)

\* A firstEvent that indexes the list without looking at its size.
firstEventStrict(self, nid) ==
    IF self.events = <<>> THEN Raise(TypeError, self, <<>>, nid)
    ELSE Ok(self, self, self.events[1], <<>>, nid)

\* Immutable.List.first() and last() are get(0) and get(-1): undefined on
\* an empty list.
firstEvent(self, nid) == Ok(self, self, ListGet(self.events, 0), <<>>, nid)

lastEvent(self, nid) == Ok(self, self, ListGet(self.events, -1), <<>>, nid)

\* The JS values the scans keep in their local variables: undefined, a
\* number of milliseconds, or a Date object holding one.  !v is true of
\* undefined and of the number 0, never of an object.
JSUndefined == [kind |-> "undefined", ms |-> 0]

JSNumber(x) == [kind |-> "number", ms |-> x]

JSDate(x) == [kind |-> "object", ms |-> x]

Not(v) == v.kind = "undefined" \/ (v.kind = "number" /\ v.ms = 0)

\* timestamp(), begin() and end() of an Event keyed by a Time: the Date of
\* the key, here its milliseconds.
timestamp(e) == getKey(e)

begin(e) == getKey(e)

end(e) == getKey(e)

\* timerange(min, max) of lib/timerange.js
TimeRange(b, e) == [begin |-> b, end |-> e]

\* this.forEach(e => { ... }) of timerange, from position i.
RECURSIVE timerangeFrom(_, _, _, _)
timerangeFrom(ev, i, min, max) ==
    IF i >= Len(ev) THEN [min |-> min, max |-> max]
    ELSE LET e == ev[i + 1]
             min2 == IF Not(min) \/ begin(e) < min.ms THEN JSDate(begin(e)) ELSE min
             max2 == IF Not(max) \/ end(e) > max.ms THEN JSDate(end(e)) ELSE max
         IN  timerangeFrom(ev, i + 1, min2, max2)

\* A timerange that takes the list to be in time order: from the first
\* event's begin() to the last event's end().
timerangeOrdered(self, nid) ==
    IF self.events = <<>> THEN Ok(self, self, Undefined, <<>>, nid)
    ELSE Ok(self, self,
            TimeRange(begin(self.events[1]), end(self.events[Len(self.events)])),
            <<>>, nid)

timerange(self, nid) ==
    LET r == timerangeFrom(self.events, 0, JSUndefined, JSUndefined)
    IN  Ok(self, self,
           IF ~Not(r.min) /\ ~Not(r.max) THEN TimeRange(r.min.ms, r.max.ms)
           ELSE Undefined,
           <<>>, nid)

\* this.forEach(e => { ... }) of isChronological, from position i: t is
\* undefined, then the number getTime() gave, then the Date timestamp()
\* gave.
RECURSIVE isChronologicalFrom(_, _, _, _)
isChronologicalFrom(ev, i, t, result) ==
    IF i >= Len(ev) THEN result
    ELSE LET e == ev[i + 1]
         IN  IF Not(t)
             THEN isChronologicalFrom(ev, i + 1, JSNumber(timestamp(e)), result)
             ELSE isChronologicalFrom(ev, i + 1, JSDate(timestamp(e)),
                                      IF timestamp(e) < t.ms THEN FALSE ELSE result)

isChronological(self, nid) ==
    Ok(self, self, isChronologicalFrom(self.events, 0, JSUndefined, TRUE), <<>>, nid)

(***************************************************************************)
(* State: the Collection the caller holds (events, keyMap), and a record   *)
(* of the last call: the receiver before (old) and after (rcv) it, the     *)
(* call and its arguments (last), what it raised, the plain value it       *)
(* returned (ret), the calls made to the caller's functions and to the     *)
(* stream processors (fnLog), and a quantile call in progress (loop).      *)
(***************************************************************************)
VARIABLES events, keyMap, old, rcv, last, raised, ret, fnLog, nextId, loop

vars == <<events, keyMap, old, rcv, last, raised, ret, fnLog, nextId, loop>>

This == Coll(events, keyMap)

\* A call and its arguments: the event and dedup mode of addEvent, the key
\* of removeEvents and atKey, the numbers n and m (takeLast's amount,
\* slice's begin and end, quantile's n), the caller's function fn (a mapper
\* or an interpolation mode) and the list of setEvents.
NoCall ==
    [op |-> "new", event |-> Undefined, dedup |-> "none", key |-> 0,
     n |-> 0, m |-> 0, fn |-> "none", list |-> <<>>]

Call(op, e, d, k, n) ==
    [NoCall EXCEPT !.op = op, !.event = e, !.dedup = d, !.key = k, !.n = n]

CallN(op, n, m, fn, list) ==
    [NoCall EXCEPT !.op = op, !.n = n, !.m = m, !.fn = fn, !.list = list]

Init ==
    /\ events = <<>>
    /\ keyMap = EmptyMap
    /\ old = EmptyColl
    /\ rcv = EmptyColl
    /\ last = NoCall
    /\ raised = "none"
    /\ ret = <<>>
    /\ fnLog = <<>>
    /\ nextId = PoolSize + 1
    /\ loop = Idle

\* The state after new Collection(list). The objects that exist are the
\* pool's or the list's own (identities 1 .. Len(l)); the next object made
\* gets the first identity after them.
InitFrom(l) ==
    /\ events = l
    /\ keyMap = Collection(l).keyMap
    /\ old = Collection(l)
    /\ rcv = Collection(l)
    /\ last = CallN("new", 0, 0, "none", l)
    /\ raised = "none"
    /\ ret = <<>>
    /\ fnLog = <<>>
    /\ nextId = (IF Len(l) > PoolSize THEN Len(l) ELSE PoolSize) + 1
    /\ loop = Idle

\* The caller makes the call and keeps the returned Collection when there
\* is one (collection = collection.op(...)).
Apply(call, r) ==
    /\ old' = This
    /\ rcv' = r.self
    /\ last' = call
    /\ raised' = r.raised
    /\ ret' = r.value
    /\ fnLog' = r.fnLog
    /\ nextId' = r.nextId
    /\ events' = r.coll.events
    /\ keyMap' = r.coll.keyMap
    /\ loop' = loop

AddEvent ==
    \E e \in Pool, d \in Dedups :
        /\ Len(events) < MaxLen
        /\ d = "sum" => nextId <= MaxId
        /\ Apply(Call("addEvent", e, d, getKey(e), 0), addEvent(This, e, d, nextId))

RemoveEvents ==
    \E k \in Keys :
        Apply(Call("removeEvents", Undefined, "none", k, 0), removeEvents(This, k, nextId))

AtKey ==
    \E k \in Keys :
        LET a == atKey(This, k)
        IN  Apply(Call("atKey", Undefined, "none", k, 0),
                  IF a.raised # "none" THEN Raise(a.raised, This, <<>>, nextId)
                  ELSE Ok(This, This, a.value, <<>>, nextId))

Next == AddEvent \/ RemoveEvents \/ AtKey

Spec == Init /\ [][Next]_vars

\* The lists a caller passes to setEvents.
Lists == { <<>>, <<E2>>, <<E3, E1>>, <<E1, E1>> }

SetEvents ==
    \E l \in Lists :
        Apply(CallN("setEvents", 0, 0, "none", l), setEvents(This, l, nextId))

TakeLast ==
    \E amount \in 0 .. MaxLen :
        Apply(CallN("takeLast", amount, 0, "none", <<>>), takeLast(This, amount, nextId))

Slice ==
    \E b \in 0 .. MaxLen, e \in 1 .. MaxLen :
        Apply(CallN("slice", b, e, "none", <<>>), slice(This, b, e, nextId))

Rest == Apply(CallN("rest", 0, 0, "none", <<>>), rest(This, nextId))

Map ==
    \E fn \in Mappers :
        Apply(CallN("map", 0, 0, fn, <<>>), map(This, fn, nextId))

FlatMap ==
    \E fn \in FlatMappers :
        /\ Len(ListFlatMap(events, fn)) <= MaxLen
        /\ Apply(CallN("flatMap", 0, 0, fn, <<>>), flatMap(This, fn, nextId))

MapKeys ==
    \E fn \in KeyMappers :
        /\ nextId + Len(events) - 1 <= MaxId
        /\ Apply(CallN("mapKeys", 0, 0, fn, <<>>), mapKeys(This, fn, nextId))

SortByKey == Apply(CallN("sortByKey", 0, 0, "none", <<>>), sortByKey(This, nextId))

Sort == Apply(CallN("sort", 0, 0, "value", <<>>), sort(This, nextId))

\* quantile(n): column and interp are left to their defaults.
Quantile ==
    \E n \in 0 .. (MaxLen + 1) :
        Apply(CallN("quantile", n, InterpLinear, "value", <<>>),
              quantile(This, n, InterpLinear, nextId))

ToJSON == Apply(CallN("toJSON", 0, 0, "none", <<>>), toJSON(This, nextId))

NextOps ==
    \/ AddEvent
    \/ RemoveEvents
    \/ AtKey
    \/ SetEvents
    \/ TakeLast
    \/ Slice
    \/ Rest
    \/ Map
    \/ FlatMap
    \/ MapKeys
    \/ SortByKey
    \/ Sort
    \/ Quantile

\* new Collection(list) for the lists a caller passes.
InitOps == \E l \in Lists : InitFrom(l)

SpecOps == InitOps /\ [][NextOps]_vars

(***************************************************************************)
(* The dump: a Collection constructed from a list, changed by insertion,   *)
(* removal, replacement and sorting, and dumped in between.                *)
(***************************************************************************)
NextDump ==
    \/ AddEvent
    \/ RemoveEvents
    \/ SetEvents
    \/ SortByKey
    \/ ToJSON

SpecDump == InitOps /\ [][NextDump]_vars

(***************************************************************************)
(* A subclass whose onEventAdded sorts: addEvent and removeEvents.         *)
(***************************************************************************)
AddEventSorted ==
    \E e \in Pool, d \in Dedups :
        /\ Len(events) < MaxLen
        /\ d = "sum" => nextId <= MaxId
        /\ Apply([Call("addEvent", e, d, getKey(e), 0) EXCEPT !.fn = "sort"],
                 addEventWith("sort", This, e, d, nextId))

NextHook == AddEventSorted \/ RemoveEvents

SpecHook == Init /\ [][NextHook]_vars

(***************************************************************************)
(* Reads of a Collection constructed from a list of events.                *)
(***************************************************************************)
\* Longest list of timestamped events a caller constructs a Collection from.
MaxT == 3

\* Longest list of valued events a caller constructs a Collection from.
MaxQ == 10

\* The timestamps of those events, in milliseconds: before, at and after
\* the epoch.
Times == -1 .. 1

\* The list of new Event(time(ts[i]), { value: vs[i] }), one new object each.
NewEvents(ts, vs) == [i \in 1 .. Len(ts) |-> Event(i, ts[i], vs[i])]

\* Events at every list of at most MaxT timestamps, valued 1, 2 or 3.
TimedEvents ==
    { NewEvents(ts, [i \in 1 .. Len(ts) |-> ts[i] + 2]) :
      ts \in UNION { [1 .. s -> Times] : s \in 0 .. MaxT } }

\* Events at the timestamps 1, 2, ..., with values going up (1, 2, 3, ...),
\* going down, and spreading out (1, 4, 9, ...).
ValuedEvents ==
    { NewEvents([i \in 1 .. Len(vs) |-> i], vs) :
      vs \in UNION { { [i \in 1 .. s |-> i],
                       [i \in 1 .. s |-> s + 1 - i],
                       [i \in 1 .. s |-> i * i] } : s \in 0 .. MaxQ } }

InitRead == \E l \in TimedEvents \cup ValuedEvents : InitFrom(l)

\* Every member of InterpolationType.
InterpolationType ==
    {InterpLinear, InterpLower, InterpHigher, InterpNearest, InterpMidpoint}

QuantileOf ==
    \E n \in 0 .. (Len(events) + 1), interp \in InterpolationType :
        Apply(CallN("quantile", n, interp, "value", <<>>), quantile(This, n, interp, nextId))

FirstEvent == Apply(CallN("firstEvent", 0, 0, "none", <<>>), firstEvent(This, nextId))

LastEvent == Apply(CallN("lastEvent", 0, 0, "none", <<>>), lastEvent(This, nextId))

Timerange == Apply(CallN("timerange", 0, 0, "none", <<>>), timerange(This, nextId))

IsChronological ==
    Apply(CallN("isChronological", 0, 0, "none", <<>>), isChronological(This, nextId))

NextRead ==
    \/ QuantileOf
    \/ ToJSON
    \/ FirstEvent
    \/ LastEvent
    \/ Timerange
    \/ IsChronological

SpecRead == InitRead /\ [][NextRead]_vars

(***************************************************************************)
(* Sorting a Collection constructed from a list of events, with            *)
(* removeEvents in between, which leaves indexes that do not match the     *)
(* list.                                                                   *)
(***************************************************************************)
NextSort ==
    \/ SortByKey
    \/ Sort
    \/ RemoveEvents
    \/ IsChronological

SpecSort == InitRead /\ [][NextSort]_vars

(***************************************************************************)
(* Stream processors over a Collection constructed from a list of events.  *)
(***************************************************************************)
Align == Apply(CallN("align", 0, 0, "none", <<>>), align(This, nextId))

Rate == Apply(CallN("rate", 0, 0, "none", <<>>), rate(This, nextId))

Collapse == Apply(CallN("collapse", 0, 0, "none", <<>>), collapse(This, nextId))

NextStream == Align \/ Rate \/ Collapse

SpecStream == InitRead /\ [][NextStream]_vars

(***************************************************************************)
(* quantile as a process: the call sorts, divides and tests n, then the    *)
(* loop makes one pass per step until i < 1 fails or a pass raises.  ret   *)
(* holds the results pushed so far, loop.pass the parity of the number of  *)
(* passes made.                                                            *)
(***************************************************************************)
QuantileCall ==
    \E n \in (-MaxN) .. (Len(events) + 1) :
        /\ loop.pc = "idle"
        /\ IF n > size(This) \/ n = 0
           THEN Apply(CallN("quantile", n, InterpLinear, "value", <<>>),
                      quantile(This, n, InterpLinear, nextId))
           ELSE /\ loop' = [pc |-> "loop",
                            sorted |-> sort(This, nextId).coll.events,
                            subsets |-> Reciprocal(IF n < 0 THEN -n ELSE n),
                            interp |-> InterpLinear,
                            i |-> [neg |-> n < 0,
                                   abs |-> Reciprocal(IF n < 0 THEN -n ELSE n),
                                   far |-> FALSE],
                            pass |-> 0]
                /\ old' = This
                /\ rcv' = This
                /\ last' = CallN("quantile", n, InterpLinear, "value", <<>>)
                /\ raised' = "none"
                /\ ret' = <<>>
                /\ fnLog' = <<>>
                /\ UNCHANGED <<events, keyMap, nextId>>

QuantilePass ==
    /\ loop.pc = "loop"
    /\ IF ~loop.i.neg /\ ~loop.i.far /\ ~DLess(loop.i.abs, One)
       THEN loop' = Idle /\ UNCHANGED <<ret, raised>>
       ELSE \E p \in {quantilePass(loop.sorted, loop.subsets, loop.i, loop.interp, ret)} :
                IF p.raised # "none"
                THEN loop' = Idle /\ ret' = <<>> /\ raised' = p.raised
                ELSE /\ loop' = [loop EXCEPT !.i = p.i, !.pass = 1 - @]
                     /\ ret' = p.results
                     /\ UNCHANGED raised
    /\ UNCHANGED <<events, keyMap, old, rcv, last, fnLog, nextId>>

NextLoop == QuantileCall \/ QuantilePass

SpecLoop == InitRead /\ [][NextLoop]_vars

(***************************************************************************)
(* Properties of the mutation engine (addEvent, removeEvents, atKey).      *)
(***************************************************************************)
Positions(ev) == 0 .. (Len(ev) - 1)

\* The events of a list whose key string is k, in list order.
EventsAtKey(ev, k) == SelectSeq(ev, LAMBDA d : KeyStr(d) = k)

LastKeyStr == toString(last.key)

\* C1: index consistency. For every position i of the event list, the set
\* stored under the key string of the event at i contains i, and the set of
\* no other key contains i.
C1_IndexConsistency ==
    \A i \in Positions(events) :
        LET k == KeyStr(events[i + 1])
        IN  /\ MapHas(keyMap, k)
            /\ i \in Range(keyMap[k])
            /\ \A k2 \in DOMAIN keyMap \ {k} : i \notin Range(keyMap[k2])

\* C2: no stale positions. Every position stored in a set of the index is
\* a position of the list, and the event there has exactly that key string.
C2_NoStalePositions ==
    \A k \in DOMAIN keyMap :
        \A p \in Range(keyMap[k]) :
            /\ p \in Positions(events)
            /\ KeyStr(events[p + 1]) = k

\* C3: insert guarantee. On the Collection addEvent returned, atKey of the
\* inserted event's key yields exactly the events of the list that have
\* that key string: all of them and nothing else.
C3_InsertGuarantee ==
    (last.op = "addEvent" /\ raised = "none") =>
        LET a == atKey(This, last.key)
        IN  /\ a.raised = "none"
            /\ Range(a.value) = Range(EventsAtKey(events, LastKeyStr))

\* C4: replace-mode dedup. addEvent(e2, true) on a Collection that holds
\* another event e1 of the same key returns a Collection in which exactly
\* one event has that key, and it is e2.
C4_ReplaceDedup ==
    (/\ last.op = "addEvent"
     /\ last.dedup = "replace"
     /\ EventsAtKey(old.events, LastKeyStr) # <<>>
     /\ last.event \notin Range(old.events)) =>
        /\ raised = "none"
        /\ EventsAtKey(events, LastKeyStr) = <<last.event>>

\* C5: merge-mode dedup. addEvent(e, fn) on a Collection that holds events
\* under e's key calls fn once, with the prior events of that key in list
\* order followed by e, and the only event of that key in the result is
\* what fn returned.
C5_MergeDedup ==
    (/\ last.op = "addEvent"
     /\ last.dedup = "sum"
     /\ EventsAtKey(old.events, LastKeyStr) # <<>>) =>
        /\ raised = "none"
        /\ Len(fnLog) = 1
        /\ fnLog[1].args = EventsAtKey(old.events, LastKeyStr) \o <<last.event>>
        /\ EventsAtKey(events, LastKeyStr) = <<fnLog[1].ret>>

\* C6: removeEvents(key) returns the receiver's list without exactly the
\* events whose key string is that of key, the others kept in order, and
\* the key is absent from the index.
C6_RemoveEvents ==
    (last.op = "removeEvents" /\ raised = "none") =>
        /\ events = SelectSeq(old.events, LAMBDA d : KeyStr(d) # LastKeyStr)
        /\ ~MapHas(keyMap, LastKeyStr)

\* C7: key not found. For a key that is not in the index, atKey returns an
\* empty list and removeEvents returns a Collection with the same events;
\* neither raises.
C7_KeyNotFound ==
    (last.op \in {"atKey", "removeEvents"} /\ ~MapHas(old.keyMap, LastKeyStr)) =>
        /\ raised = "none"
        /\ last.op = "atKey" => ret = <<>>
        /\ last.op = "removeEvents" => events = old.events

\* C8: dedup without conflict. addEvent(e, dedup) with dedup set, on a
\* Collection holding no event under e's key, does not raise, does not call
\* the merge function and returns the receiver's list with e appended.
C8_DedupNoConflict ==
    (/\ last.op = "addEvent"
     /\ last.dedup # "none"
     /\ EventsAtKey(old.events, LastKeyStr) = <<>>) =>
        /\ raised = "none"
        /\ fnLog = <<>>
        /\ events = Append(old.events, last.event)

(***************************************************************************)
(* Properties of every operation.                                          *)
(***************************************************************************)
\* The operations that return a new Collection.
MutatingOps ==
    {"addEvent", "removeEvents", "setEvents", "takeLast", "slice", "rest",
     "map", "flatMap", "mapKeys", "sort", "sortByKey"}

\* C9: immutability. Whatever the operation, and whether it returned or
\* raised, the receiver's event list and key index are after the call what
\* they were before it.
C9_Immutability == rcv = old

\* An operation has returned a Collection with another event list than the
\* receiver's, and the receiver is as it was.
C9_Witness ==
    /\ last.op \in MutatingOps
    /\ raised = "none"
    /\ events # old.events
    /\ old.events # <<>>
    /\ rcv = old

\* C10: quantile precondition. quantile(n, ...) with n greater than size()
\* raises "Subset n is greater than the Collection length" and returns no
\* result.
C10_QuantilePrecondition ==
    (last.op = "quantile" /\ last.n > Len(old.events)) =>
        /\ raised = SubsetError
        /\ ret = <<>>

\* quantile has been called on a non-empty Collection with n = size() + 1.
C10_Witness ==
    /\ last.op = "quantile"
    /\ old.events # <<>>
    /\ last.n = Len(old.events) + 1
    /\ raised = SubsetError

(***************************************************************************)
(* Properties of the reads.                                                *)
(***************************************************************************)
\* The values of a list of events, in ascending order.
SortedValues(ev) ==
    LET sorted == ListSortBy(ev, "value")
    IN  [i \in 1 .. Len(sorted) |-> sorted[i].value]

\* The cut point of the j-th pass of quantile's loop: 1/n added up j times.
RECURSIVE CutPoint(_, _)
CutPoint(n, j) ==
    IF j = 1 THEN Reciprocal(n) ELSE DAdd(CutPoint(n, j - 1), Reciprocal(n))

\* The documented combination of v0 and v1 for an interpolation mode.
Interpolated(v0, v1, fraction, interp) ==
    CASE interp = InterpLower -> FromInt(v0)
      [] interp = InterpLinear -> DAdd(FromInt(v0), DMulInt(fraction, v1 - v0))
      [] interp = InterpHigher -> FromInt(v1)
      [] interp = InterpNearest ->
            IF DLess(fraction, Dyadic(1, -1)) THEN FromInt(v0) ELSE FromInt(v1)
      [] interp = InterpMidpoint -> Dyadic(v0 + v1, -1)

\* C11: quantile interpolation. Every value quantile(n, "value", interp)
\* returns is the combination of v0 (the value at idx) and v1 (the value at
\* idx + 1) that the caller's interpolation mode names: lower v0, linear
\* v0 + (v1 - v0) * fraction, higher v1, nearest v0 if fraction < 0.5 else
\* v1, midpoint (v0 + v1) / 2; and quantile(4, "value", linear) on the
\* values 1..10 returns [3.25, 5.5, 7.75].
C11_QuantileInterpolation ==
    (last.op = "quantile" /\ raised = "none") =>
        LET values == SortedValues(old.events)
        IN  /\ \A j \in 1 .. Len(ret) :
                  LET at == DMulInt(CutPoint(last.n, j), Len(values) - 1)
                      idx == Floor(at)
                  IN  ret[j] = Interpolated(values[idx + 1], values[idx + 2],
                                            DSubInt(at, idx), last.m)
            /\ (/\ last.n = 4
                /\ last.m = InterpLinear
                /\ values = [i \in 1 .. 10 |-> i]) =>
                   ret = <<Dyadic(13, -2), Dyadic(11, -1), Dyadic(31, -2)>>

\* C12: quantile output length. For 1 <= n <= size(), quantile(n, ...)
\* returns exactly n - 1 values, the j-th lying between the values at
\* idx = floor((size() - 1) * j / n) and idx + 1 of the Collection sorted
\* by the field.
C12_QuantileLength ==
    (last.op = "quantile" /\ 1 <= last.n /\ last.n <= Len(old.events)) =>
        LET values == SortedValues(old.events)
        IN  /\ raised = "none"
            /\ Len(ret) = last.n - 1
            /\ \A j \in 1 .. Len(ret) :
                  LET idx == ((Len(values) - 1) * j) \div last.n
                  IN  /\ ~DLess(ret[j], FromInt(values[idx + 1]))
                      /\ ~DLess(FromInt(values[idx + 2]), ret[j])

\* C13: isChronological() is true if and only if no event's timestamp is
\* strictly less than the timestamp of the event before it, zero and
\* negative timestamps included; equal timestamps do not break it.
C13_IsChronological ==
    (last.op = "isChronological") =>
        /\ raised = "none"
        /\ ret = (\A i \in 1 .. (Len(old.events) - 1) :
                     ~(timestamp(old.events[i + 1]) < timestamp(old.events[i])))

SetMin(S) == CHOOSE x \in S : \A y \in S : x <= y

SetMax(S) == CHOOSE x \in S : \A y \in S : x >= y

\* C14: timerange() on a non-empty Collection is the interval from the
\* least begin() to the greatest end() of its events, in whatever order
\* the events are.
C14_Timerange ==
    (last.op = "timerange" /\ old.events # <<>>) =>
        /\ raised = "none"
        /\ ret = TimeRange(SetMin({ begin(e) : e \in Range(old.events) }),
                           SetMax({ end(e) : e \in Range(old.events) }))

\* timerange() has been called on events that are not in time order, one
\* of them at the epoch, the earliest neither first nor last.
C14_Witness ==
    /\ last.op = "timerange"
    /\ raised = "none"
    /\ Len(old.events) = 3
    /\ timestamp(old.events[1]) = 0
    /\ timestamp(old.events[2]) < 0
    /\ timestamp(old.events[3]) > 0
    /\ ret = TimeRange(timestamp(old.events[2]), timestamp(old.events[3]))

\* C15: empty-input degeneracy. On an empty Collection timerange(),
\* firstEvent() and lastEvent() return undefined and do not raise; on a
\* non-empty one firstEvent() is the event at position 0 and lastEvent()
\* the event at position size() - 1.
C15_EmptyDegeneracy ==
    /\ (last.op \in {"timerange", "firstEvent", "lastEvent"} /\ old.events = <<>>) =>
           (raised = "none" /\ ret = Undefined)
    /\ (last.op = "firstEvent" /\ old.events # <<>>) =>
           (raised = "none" /\ ret = ListGet(old.events, 0))
    /\ (last.op = "lastEvent" /\ old.events # <<>>) =>
           (raised = "none" /\ ret = ListGet(old.events, size(old) - 1))

\* firstEvent() has been called on an empty Collection and has returned
\* undefined.
C15_Witness ==
    /\ last.op = "firstEvent"
    /\ old.events = <<>>
    /\ raised = "none"
    /\ ret = Undefined

\* C16: round trip. A Collection constructed from a list holds the events
\* of the list in the list's order, and toJSON(), after whatever calls came
\* before, is the plain dump of the events in the Collection's current
\* order.
C16_RoundTrip ==
    /\ (last.op = "new") =>
           /\ events = last.list
           /\ toJSON(Collection(last.list), nextId).value =
                  [i \in 1 .. Len(last.list) |-> EventJS(last.list[i])]
    /\ (last.op = "toJSON") =>
           /\ raised = "none"
           /\ events = old.events
           /\ ret = [i \in 1 .. Len(events) |-> EventJS(events[i])]

\* toJSON() has been called on a Collection of two events that are not in
\* key order, and has dumped them in their order.
C16_Witness ==
    /\ last.op = "toJSON"
    /\ events = <<E3, E1>>
    /\ ret = <<EventJS(E3), EventJS(E1)>>

(***************************************************************************)
(* Properties of insertion order and of the index updates.                 *)
(***************************************************************************)
\* C17: plain insert preserves insertion order. addEvent(e) without dedup
\* and with the default hook returns a Collection of size() + 1 whose first
\* size() events are the receiver's, in the same order, and whose last
\* event is e; size() is the length of the list.
C17_InsertionOrder ==
    /\ size(This) = Len(events)
    /\ (last.op = "addEvent" /\ last.dedup = "none" /\ last.fn # "sort") =>
           /\ raised = "none"
           /\ size(This) = size(old) + 1
           /\ SubSeq(events, 1, size(old)) = old.events
           /\ events[size(This)] = last.event

\* A plain addEvent has put an event behind one of a later key.
C17_Witness ==
    /\ last.op = "addEvent"
    /\ last.dedup = "none"
    /\ raised = "none"
    /\ old.events = <<E3>>
    /\ events = <<E3, E1>>

\* The positions an index holds under a key string: none when the key is
\* not in the index.
IndexSet(km, k) == IF MapHas(km, k) THEN Range(km[k]) ELSE {}

\* C18: incremental index update frame. With the default hook and without
\* dedup, addEvent(e) adds the new last position to the index set of e's
\* key string and leaves the index set of every other key as it was in the
\* receiver.
C18_IncrementalFrame ==
    (last.op = "addEvent" /\ last.dedup = "none" /\ last.fn # "sort") =>
        /\ raised = "none"
        /\ DOMAIN keyMap = DOMAIN old.keyMap \cup {LastKeyStr}
        /\ IndexSet(keyMap, LastKeyStr) =
               IndexSet(old.keyMap, LastKeyStr) \cup {Len(events) - 1}
        /\ \A k \in DOMAIN old.keyMap \ {LastKeyStr} : keyMap[k] = old.keyMap[k]

\* A plain addEvent has run on a receiver whose index holds, under another
\* key, a position that is not in the receiver's list, and has left it.
C18_Witness ==
    /\ last.op = "addEvent"
    /\ last.dedup = "none"
    /\ raised = "none"
    /\ \E k \in DOMAIN old.keyMap \ {LastKeyStr} :
           /\ \E p \in Range(old.keyMap[k]) : p \notin Positions(old.events)
           /\ keyMap[k] = old.keyMap[k]

\* An index is the index of a list: its keys are the key strings of the
\* list's events, and each maps to exactly the positions holding that key.
IsIndexOf(km, ev) ==
    /\ DOMAIN km = { KeyStr(e) : e \in Range(ev) }
    /\ \A k \in DOMAIN km :
           /\ Range(km[k]) = { i \in Positions(ev) : KeyStr(ev[i + 1]) = k }
           /\ Len(km[k]) = Cardinality(Range(km[k]))

\* C19: reorder hook. When onEventAdded returns another list than the
\* appended one (a hook that sorts), the Collection addEvent returns holds
\* the hook's list, with the added event in it, and its index is the
\* index rebuilt from scratch over that list, whatever the dedup mode and
\* the receiver, one with a stale index included.
C19_ReorderHook ==
    (last.op = "addEvent" /\ last.fn = "sort" /\ raised = "none") =>
        /\ events = ListSortBy(events, "key")
        /\ \E i \in DOMAIN events :
               /\ getKey(events[i]) = last.key
               /\ events[i] = (IF fnLog = <<>> THEN last.event ELSE fnLog[1].ret)
        /\ keyMap = buildKeyMap(events)
        /\ IsIndexOf(keyMap, events)

\* addEvent with the sorting hook has run on a receiver whose index was not
\* the index of its list, and has put the new event in front.
C19_Witness ==
    /\ last.op = "addEvent"
    /\ last.fn = "sort"
    /\ raised = "none"
    /\ ~IsIndexOf(old.keyMap, old.events)
    /\ Len(events) = 2
    /\ events[1] = last.event

\* C20: full rebuild. buildKeyMap(seq), setEvents(seq) and construction
\* from seq give the same index, which maps each key string occurring in
\* seq to exactly the positions holding it, whatever list and index the
\* receiver had.
C20_FullRebuild ==
    (last.op \in {"setEvents", "new"}) =>
        /\ raised = "none"
        /\ events = last.list
        /\ keyMap = buildKeyMap(last.list)
        /\ keyMap = Collection(last.list).keyMap
        /\ keyMap = setEvents(old, last.list, nextId).coll.keyMap
        /\ IsIndexOf(keyMap, last.list)

\* setEvents has been called with two events of one key on a receiver
\* whose index was not the index of its list.
C20_Witness ==
    /\ last.op = "setEvents"
    /\ raised = "none"
    /\ Len(last.list) = 2
    /\ KeyStr(last.list[1]) = KeyStr(last.list[2])
    /\ ~IsIndexOf(old.keyMap, old.events)
    /\ IsIndexOf(keyMap, events)

(***************************************************************************)
(* Properties of the structural transforms.                                *)
(***************************************************************************)
\* The count events of a list that start at position from, in list order.
Picked(ev, from, count) == [i \in 1 .. count |-> ev[from + i]]

\* The larger of two numbers.
Max(a, b) == IF a > b THEN a ELSE b

\* C21: positional sub-sequencing. On every receiver, one with a stale
\* index included, rest() returns all events but the first, takeLast(n)
\* the last min(n, size()) events and slice(begin, end) the events at
\* positions begin .. end - 1 (for 0 <= begin and 0 < end), each in the
\* receiver's order, and the index of the result is the index of the
\* result's list, positions counted from 0 at its first event.
C21_SubSequencing ==
    LET n == Len(old.events)
    IN  /\ (last.op \in {"rest", "takeLast", "slice"}) =>
               raised = "none" /\ IsIndexOf(keyMap, events)
        /\ (last.op = "rest") =>
               events = Picked(old.events, 1, Max(n - 1, 0))
        /\ (last.op = "takeLast") =>
               events = Picked(old.events, n - Min(last.n, n), Min(last.n, n))
        /\ (last.op = "slice") =>
               events = Picked(old.events, last.n,
                               Max(Min(last.m, n) - last.n, 0))

\* slice(1, 2) has cut the second event out of a receiver of two events
\* whose index was not the index of its list; the event is at position 0
\* of the result's index.
C21_Witness ==
    /\ last.op = "slice"
    /\ last.n = 1
    /\ last.m = 2
    /\ Len(old.events) = 2
    /\ ~IsIndexOf(old.keyMap, old.events)
    /\ events = <<old.events[2]>>
    /\ keyMap[KeyStr(events[1])] = <<0>>

\* The value a sort call orders by: the timestamp of the key for
\* sortByKey(), the value field for sort("value").
SortedBy(e) == IF last.op = "sortByKey" THEN getKey(e) ELSE e.value

\* C22: stable sorts. sortByKey() and sort(field) return a Collection
\* whose list is in ascending order of the sort value and holds, for each
\* sort value, the receiver's events of that value in the receiver's
\* order (so it is a permutation of the receiver's list), with the index
\* of the new list; isChronological() of the result of sortByKey() is true.
C22_StableSorts ==
    /\ (last.op \in {"sortByKey", "sort"}) =>
           /\ raised = "none"
           /\ Len(events) = Len(old.events)
           /\ \A i, j \in DOMAIN events :
                  i < j => SortedBy(events[i]) <= SortedBy(events[j])
           /\ \A x \in Range(old.events) \cup Range(events) :
                  SelectSeq(events, LAMBDA e : SortedBy(e) = SortedBy(x))
                      = SelectSeq(old.events, LAMBDA e : SortedBy(e) = SortedBy(x))
           /\ IsIndexOf(keyMap, events)
    /\ (last.op = "sortByKey") => isChronological(This, nextId).value = TRUE
    /\ (last.op = "isChronological"
            /\ \A i, j \in DOMAIN events : i < j => getKey(events[i]) <= getKey(events[j]))
           => ret = TRUE

\* sortByKey() has moved an event in front of two events of one later
\* timestamp, which kept their order.
C22_Witness ==
    /\ last.op = "sortByKey"
    /\ Len(events) = 3
    /\ events # old.events
    /\ getKey(events[2]) = getKey(events[3])
    /\ events[2].id < events[3].id
    /\ getKey(events[1]) < getKey(events[2])

\* The concatenation of a list of lists, in list order.
RECURSIVE Flattened(_)
Flattened(parts) ==
    IF parts = <<>> THEN <<>> ELSE Head(parts) \o Flattened(Tail(parts))

\* C23: map and flatMap. map(fn) returns a Collection of the receiver's
\* size whose event at position i is fn(event at i); flatMap(fn) returns
\* the concatenation, in list order, of the lists fn returns for the
\* events; in both the index is the index of the output list.
C23_MapFlatMap ==
    /\ (last.op \in {"map", "flatMap"}) =>
           raised = "none" /\ IsIndexOf(keyMap, events)
    /\ (last.op = "map") =>
           /\ Len(events) = Len(old.events)
           /\ \A i \in DOMAIN events : events[i] = Mapper(last.fn, old.events[i])
    /\ (last.op = "flatMap") =>
           events = Flattened([i \in DOMAIN old.events |->
                                   FlatMapper(last.fn, old.events[i])])

\* flatMap has run with a function that gives no event for the first of
\* two events and one for the second, which is at position 0 of the index
\* of the result.
C23_Witness ==
    /\ last.op = "flatMap"
    /\ last.fn = "later"
    /\ Len(old.events) = 2
    /\ getKey(old.events[1]) = 1
    /\ events = <<old.events[2]>>
    /\ keyMap = [k \in {KeyStr(events[1])} |-> <<0>>]

(***************************************************************************)
(* Properties of the stream processor operations.                          *)
(***************************************************************************)
\* C24: stream processor ordering. align, rate and collapse call the
\* processor's addEvent once per event of the Collection, first to last,
\* none skipped, none repeated, and return the Collection of the
\* processor's outputs laid end to end in that order; the Collection
\* collapse returns has as many events as the receiver.
C24_StreamOrdering ==
    (last.op \in {"align", "rate", "collapse"}) =>
        /\ Len(fnLog) = Len(old.events)
        /\ \A i \in DOMAIN fnLog : fnLog[i].args = <<old.events[i]>>
        /\ raised = "none"
        /\ events = Flattened([i \in DOMAIN fnLog |-> fnLog[i].ret])
        /\ IsIndexOf(keyMap, events)
        /\ (last.op = "collapse") => Len(events) = Len(old.events)

(***************************************************************************)
(* Termination of quantile.                                                *)
(***************************************************************************)
\* C25: quantile termination. A call of quantile(n, field, interp), for any
\* integer n (0 and negative n included) and any Collection (of size 0 and
\* 1 included), comes to an end: it returns a result or raises an error.
\* The loop is a function of i and the results pushed so far, so a call
\* comes to an end only if no pass that stays in the loop leaves both as it
\* found them: after such a pass the same pass follows, for ever.
C25_QuantileTerminates ==
    [][(loop.pc = "loop" /\ loop'.pc = "loop") => (loop'.i # loop.i \/ ret' # ret)]_vars

(***************************************************************************)
(* Multiplicity of atKey.                                                  *)
(***************************************************************************)
\* C26: atKey multiplicity. On a Collection whose index is the index of its
\* list, as addEvent without dedup builds it, atKey(k) for a key in the
\* index returns one element per position holding k: as many elements as
\* there are positions whose key string is k, also when one and the same
\* event is at several of them.
C26_AtKeyMultiplicity ==
    (/\ last.op = "atKey"
     /\ IsIndexOf(old.keyMap, old.events)
     /\ MapHas(old.keyMap, toString(last.key))) =>
        /\ raised = "none"
        /\ Len(ret) = Cardinality({ i \in Positions(old.events) :
                                      KeyStr(old.events[i + 1]) = toString(last.key) })

====
